---------------------------- MODULE Spec2Model ----------------------------
(***************************************************************************)
(* Benford's Law Game (src/app.py): the scorer and the leaderboard store.  *)
(*                                                                         *)
(* Text (names, the dataset) is a sequence of one-character strings, so    *)
(* that strip() and re.findall() are computed and not assumed.  A score    *)
(* is kept in tenths (88.1 is 881); chi_sq in units of 10^-5 and the       *)
(* argument of math.exp in units of 10^-6, in 32-bit integer arithmetic.   *)
(* Python's counts[d-1] (0-based) is counts[d] here (1-based).             *)
(***************************************************************************)
EXTENDS Integers, Sequences, FiniteSets

VARIABLES
    leaderboard,   \* st.session_state.leaderboard of each session
    loaded,        \* "leaderboard" in st.session_state, per session
    csv_exists,    \* os.path.exists(CSV_FILE)
    csv_rows,      \* the rows of CSV_FILE, each <<name, score text, timestamp>>
    clock,         \* datetime.now(), in seconds
    run,           \* the locals of the last script run (inputs, histogram, outcome)
    writes         \* history variable: how many times CSV_FILE was written

vars == <<leaderboard, loaded, csv_exists, csv_rows, clock, run, writes>>

(***************************************************************************)
(* Bounds of the model.                                                    *)
(***************************************************************************)
MaxWrites == 3
MaxClock == 1
MaxText == 6
BigCount == 344

Sessions == {"s1", "s2"}

Digits == {"0", "1", "2", "3", "4", "5", "6", "7", "8", "9"}
Whitespace == {" ", "\t", "\n"}

(***************************************************************************)
(* Constants of the program.                                               *)
(***************************************************************************)
\* BENFORD, in thousandths
BENFORD == <<301, 176, 125, 97, 79, 67, 58, 51, 46>>
\* mid = 20
mid == 20
\* k = 0.10, in tenths
k_tenths == 1
\* if len(numbers) < 5
MinNumbers == 5
\* math.exp(x) raises OverflowError for x > 709.782712..., in units of 10^-6
ExpMaxArg == 709782712

(***************************************************************************)
(* Integer helpers.                                                        *)
(***************************************************************************)
Abs(x) == IF x < 0 THEN -x ELSE x

\* floor(a * b / c) for a >= 0, 0 <= b < 2^31 and 0 < c <= 10^6, with b taken
\* three decimal places at a time so that no intermediate value leaves 32 bits
MulDiv(a, b, c) ==
    LET ra == a % c
        v2 == ra * (b \div 1000000)
        v1 == ((v2 % c) * 1000) + (ra * ((b \div 1000) % 1000))
        v0 == ((v1 % c) * 1000) + (ra * (b % 1000))
    IN  ((a \div c) * b) + ((((v2 \div c) * 1000) + (v1 \div c)) * 1000) + (v0 \div c)

RECURSIVE SumSeq(_, _)
SumSeq(s, i) == IF i > Len(s) THEN 0 ELSE s[i] + SumSeq(s, i + 1)

\* sum(counts)
sum(s) == SumSeq(s, 1)

(***************************************************************************)
(* Text: str.strip(), re.findall(r"\d+", ...), int(n[0]).                  *)
(***************************************************************************)
RECURSIVE lstrip(_)
lstrip(s) == IF s # <<>> /\ Head(s) \in Whitespace THEN lstrip(Tail(s)) ELSE s

RECURSIVE rstrip(_)
rstrip(s) ==
    IF s # <<>> /\ s[Len(s)] \in Whitespace THEN rstrip(SubSeq(s, 1, Len(s) - 1)) ELSE s

\* the name taken as typed (a slip: `if not username`)
strip_none(s) == s
\* username.strip()
strip(s) == rstrip(lstrip(s))

\* the scan of re.findall(r"\d+", text): cur is the digit run being read
RECURSIVE findall_from(_, _, _, _)
findall_from(text, i, cur, acc) ==
    IF i > Len(text)
    THEN IF cur = <<>> THEN acc ELSE Append(acc, cur)
    ELSE IF text[i] \in Digits
         THEN findall_from(text, i + 1, Append(cur, text[i]), acc)
         ELSE findall_from(text, i + 1, <<>>, IF cur = <<>> THEN acc ELSE Append(acc, cur))

findall(text) == findall_from(text, 1, <<>>, <<>>)

\* int(c) of one digit character
int(c) ==
    CASE c = "0" -> 0 [] c = "1" -> 1 [] c = "2" -> 2 [] c = "3" -> 3 [] c = "4" -> 4
      [] c = "5" -> 5 [] c = "6" -> 6 [] c = "7" -> 7 [] c = "8" -> 8 [] c = "9" -> 9

(***************************************************************************)
(* The scorer.                                                             *)
(***************************************************************************)
\* the loop over numbers: a token starting with "0" is added to no bucket
RECURSIVE count_from(_, _, _)
count_from(numbers, i, counts) ==
    IF i > Len(numbers) THEN counts
    ELSE LET n == numbers[i] IN
         IF n[1] # "0"
         THEN LET d == int(n[1]) IN
              IF 1 <= d /\ d <= 9
              THEN count_from(numbers, i + 1, [counts EXCEPT ![d] = @ + 1])
              ELSE count_from(numbers, i + 1, counts)
         ELSE count_from(numbers, i + 1, counts)

\* the bucket of the token's last character (a slip: n[-1])
RECURSIVE count_last_from(_, _, _)
count_last_from(numbers, i, counts) ==
    IF i > Len(numbers) THEN counts
    ELSE LET n == numbers[i]
             d == int(n[Len(n)]) IN
         IF 1 <= d /\ d <= 9
         THEN count_last_from(numbers, i + 1, [counts EXCEPT ![d] = @ + 1])
         ELSE count_last_from(numbers, i + 1, counts)

count_last_digits(numbers) == count_last_from(numbers, 1, [d \in 1..9 |-> 0])
\* counts = [0]*9, then the loop
count_first_digits(numbers) == count_from(numbers, 1, [d \in 1..9 |-> 0])

\* (O - E) ** 2 / E with E = benford[i] * total, in units of 10^-5
chi_term(O, b, total) ==
    LET D == Abs((1000 * O) - (b * total)) IN MulDiv(D, 100 * D, b * total)

RECURSIVE chi_sq_from(_, _, _, _)
chi_sq_from(counts, benford, total, i) ==
    IF i > 9 THEN 0
    ELSE (IF benford[i] * total > 0 THEN chi_term(counts[i], benford[i], total) ELSE 0)
         + chi_sq_from(counts, benford, total, i + 1)

\* e^n for the integer part of the argument, in units of 10^-6
exp_int(n) ==
    CASE n = -2 -> 135335    [] n = -1 -> 367879    [] n = 0 -> 1000000
      [] n = 1 -> 2718282    [] n = 2 -> 7389056    [] n = 3 -> 20085537
      [] n = 4 -> 54598150   [] n = 5 -> 148413159  [] n = 6 -> 403428793
      [] n = 7 -> 1096633158

\* e^(f / 10^6) for 0 <= f < 10^6, in units of 10^-8: the Taylor series
RECURSIVE exp_series(_, _, _, _)
exp_series(term, f, n, acc) ==
    IF n > 12 THEN acc
    ELSE LET t == MulDiv(term, f, 1000000) \div n IN exp_series(t, f, n + 1, acc + t)

\* math.exp(x6 / 10^6) in units of 10^-5, for an argument that does not
\* overflow; from e^8 on the value only matters as "large" (the score
\* rounds to 0.0), and e^8 stands for it
math_exp(x6) ==
    IF x6 >= 8000000 THEN 298095799
    ELSE MulDiv(exp_series(100000000, x6 % 1000000, 1, 100000000) \div 1000,
                exp_int(x6 \div 1000000), 1000000)

\* chi_square_score(counts, benford, total): round(score, 1) in tenths, or the
\* exception math.exp raises.  The fixed-point value of math.exp is within
\* 10^-5 of the float's, so the score can differ from the program's by 0.1
\* where the float lies on a rounding boundary.
chi_square_score(counts, benford, total) ==
    LET chi_sq == chi_sq_from(counts, benford, total, 1)
        x6     == k_tenths * (chi_sq - (mid * 100000))
    IN  IF x6 > ExpMaxArg
        THEN [raised |-> "OverflowError", score |-> 0]
        ELSE LET den == 100000 + math_exp(x6) IN
             [raised |-> "", score |-> (200000000 + den) \div (2 * den)]

(***************************************************************************)
(* The leaderboard store.                                                  *)
(***************************************************************************)
\* datetime.now().strftime("%Y-%m-%d %H:%M:%S"): the minute and second fields
strftime(t) == <<t \div 60, t % 60>>

\* the score written without its decimal (a slip: int(score))
float_trunc(score) == <<score \div 10, 0>>
\* str(score) as csv.writer writes a float: integer part, ".", one decimal
float_repr(score) == <<score \div 10, score % 10>>

\* float(text)
float(text) == (text[1] * 10) + text[2]

\* writer.writerow([entry["name"], entry["score"], entry["timestamp"]])
writerow(entry) == <<entry.name, float_repr(entry.score), entry.timestamp>>

\* the file opened with "a" (a slip): the rows are added to the file's
save_append(rows, board) == rows \o [i \in 1..Len(board) |-> writerow(board[i])]
\* save_leaderboard(board): open(CSV_FILE, "w") empties the file (rows is
\* what it held), then one row per entry
save_leaderboard(rows, board) == [i \in 1..Len(board) |-> writerow(board[i])]

\* load_leaderboard()
load_leaderboard(exists, rows) ==
    IF ~exists THEN <<>>
    ELSE [i \in 1..Len(rows) |->
            [name |-> rows[i][1], score |-> float(rows[i][2]), timestamp |-> rows[i][3]]]

\* the place of e in a list sorted by score descending: after every entry
\* of score >= e.score
RECURSIVE insert_place(_, _, _)
insert_place(board, e, i) ==
    IF i <= Len(board) /\ board[i].score >= e.score THEN insert_place(board, e, i + 1) ELSE i

RECURSIVE insert_place_before(_, _, _)
insert_place_before(board, e, i) ==
    IF i <= Len(board) /\ board[i].score > e.score
    THEN insert_place_before(board, e, i + 1) ELSE i

InsertAt(board, i, e) == SubSeq(board, 1, i - 1) \o <<e>> \o SubSeq(board, i, Len(board))
RemoveAt(board, i) == SubSeq(board, 1, i - 1) \o SubSeq(board, i + 1, Len(board))

\* a sort that is not stable (a slip): an entry goes before the entries of its score
RECURSIVE sorted_unstable(_)
sorted_unstable(board) ==
    IF board = <<>> THEN <<>>
    ELSE LET rest == sorted_unstable(SubSeq(board, 1, Len(board) - 1))
             e    == board[Len(board)]
         IN  InsertAt(rest, insert_place_before(rest, e, 1), e)

RECURSIVE sorted_rec(_)
sorted_rec(board) ==
    IF board = <<>> THEN <<>>
    ELSE LET rest == sorted_rec(SubSeq(board, 1, Len(board) - 1))
             e    == board[Len(board)]
         IN  InsertAt(rest, insert_place(rest, e, 1), e)

\* sorted(board, key=lambda x: x["score"], reverse=True): a stable sort
sorted(board) == sorted_rec(board)

\* next(i for i, e in enumerate(board) if e["name"] == selected_name)
RECURSIVE next_index(_, _, _)
next_index(board, selected_name, i) ==
    IF board[i].name = selected_name THEN i ELSE next_index(board, selected_name, i + 1)

RECURSIVE last_index(_, _, _)
last_index(board, selected_name, i) ==
    IF board[i].name = selected_name THEN i ELSE last_index(board, selected_name, i - 1)

\* the last entry of that name (a slip)
last_match(board, selected_name) == last_index(board, selected_name, Len(board))
first_match(board, selected_name) == next_index(board, selected_name, 1)

\* every entry of that name is renamed (a slip)
set_name_all(board, index, new_name) ==
    [i \in 1..Len(board) |->
        IF board[i].name = board[index].name THEN [board[i] EXCEPT !.name = new_name]
        ELSE board[i]]
\* st.session_state.leaderboard[index]["name"] = new_name
set_name(board, index, new_name) == [board EXCEPT ![index].name = new_name]

\* st.session_state.leaderboard.pop(index)
pop(board, index) == RemoveAt(board, index)

(***************************************************************************)
(* Inputs.                                                                 *)
(***************************************************************************)
\* the name field: empty, blank, and two names
Names == {<<>>, <<" ">>, <<"a">>, <<"b">>}

RECURSIVE Join(_, _)
Join(tokens, sep) ==
    IF tokens = <<>> THEN <<>>
    ELSE IF Len(tokens) = 1 THEN tokens[1]
    ELSE tokens[1] \o <<sep>> \o Join(Tail(tokens), sep)

\* "123 045 999 100 256 777"
DataScenario ==
    Join(<< <<"1", "2", "3">>, <<"0", "4", "5">>, <<"9", "9", "9">>,
            <<"1", "0", "0">>, <<"2", "5", "6">>, <<"7", "7", "7">> >>, " ")
\* "12 34"
DataTooFew == Join(<< <<"1", "2">>, <<"3", "4">> >>, " ")
\* "01,02,03,04,05"
DataAllZero ==
    Join(<< <<"0", "1">>, <<"0", "2">>, <<"0", "3">>, <<"0", "4">>, <<"0", "5">> >>, ",")
\* "9 9 9 9 9"
DataNines == Join(<< <<"9">>, <<"9">>, <<"9">>, <<"9">>, <<"9">> >>, " ")

\* the dataset field
Datasets == {DataScenario, DataTooFew, DataAllZero, DataNines}

\* every text of at most MaxText characters over a small alphabet
TextAlphabet == {"0", "1", "9", " "}
Texts == (UNION {[1..n -> TextAlphabet] : n \in 0..MaxText}) \cup Datasets

\* the histograms chi_square_score is applied to
HistValues == {0, 1, BigCount}
Histograms == [1..9 -> HistValues]

(***************************************************************************)
(* The state machine: one action per script run.                           *)
(***************************************************************************)
NoRun ==
    [session |-> "", op |-> "", outcome |-> "",
     username |-> <<>>, data_input |-> <<>>, numbers |-> <<>>,
     counts |-> [d \in 1..9 |-> 0], total |-> 0, score |-> 0,
     selected_name |-> <<>>, index |-> 0, new_name |-> <<>>]

Init ==
    /\ leaderboard = [s \in Sessions |-> <<>>]
    /\ loaded = [s \in Sessions |-> FALSE]
    /\ csv_exists = FALSE
    /\ csv_rows = <<>>
    /\ clock = 0
    /\ run = NoRun
    /\ writes = 0

\* the first run of a session: no button is pressed, the leaderboard is loaded
Open(s) ==
    /\ ~loaded[s]
    /\ leaderboard' = [leaderboard EXCEPT ![s] = load_leaderboard(csv_exists, csv_rows)]
    /\ loaded' = [loaded EXCEPT ![s] = TRUE]
    /\ run' = [NoRun EXCEPT !.session = s, !.op = "open"]
    /\ UNCHANGED <<csv_exists, csv_rows, clock, writes>>

\* a run that ends before the leaderboard is touched: st.stop() or an exception
Halted(r) ==
    /\ run' = r
    /\ UNCHANGED <<leaderboard, loaded, csv_exists, csv_rows, clock, writes>>

\* lines 88-105 of the Submit handler on one dataset: the locals when the run
\* stops (st.stop() or an exception) or reaches the leaderboard update
score_dataset(data_input) ==
    LET numbers == findall(data_input)
        counts  == count_first_digits(numbers)
        total   == sum(counts)
        res     == chi_square_score(counts, BENFORD, total)
        r1      == [NoRun EXCEPT !.data_input = data_input, !.numbers = numbers]
        r2      == [r1 EXCEPT !.counts = counts, !.total = total]
    IN  IF Len(numbers) < MinNumbers THEN [r1 EXCEPT !.outcome = "count_error"]
        ELSE IF total = 0 THEN [r2 EXCEPT !.outcome = "ZeroDivisionError"]
        ELSE IF res.raised # "" THEN [r2 EXCEPT !.outcome = res.raised]
        ELSE [r2 EXCEPT !.score = res.score, !.outcome = "ok"]

\* score_dataset on every dataset of the model, computed once
Scored == [data_input \in Datasets |-> score_dataset(data_input)]

\* the Submit button
Submit(s) ==
    /\ loaded[s]
    /\ \E username \in Names, data_input \in Datasets :
        IF strip(username) = <<>>
        THEN Halted([NoRun EXCEPT !.session = s, !.op = "submit", !.username = username,
                                  !.outcome = "name_error"])
        ELSE
        LET r == [Scored[data_input] EXCEPT !.session = s, !.op = "submit",
                                            !.username = username]
        IN
        IF r.outcome # "ok"
        THEN Halted(r)
        ELSE
        LET entry == [name |-> username, score |-> r.score, timestamp |-> strftime(clock)]
            board == sorted(Append(leaderboard[s], entry))
        IN
        /\ writes < MaxWrites
        /\ leaderboard' = [leaderboard EXCEPT ![s] = board]
        /\ csv_rows' = save_leaderboard(csv_rows, board)
        /\ csv_exists' = TRUE
        /\ run' = r
        /\ writes' = writes + 1
        /\ UNCHANGED <<loaded, clock>>

\* the Update Name button, with an entry selected and a new name typed
UpdateName(s) ==
    /\ loaded[s]
    /\ leaderboard[s] # <<>>
    /\ writes < MaxWrites
    /\ \E option \in 1..Len(leaderboard[s]), new_name \in Names :
        LET selected_name == leaderboard[s][option].name
            index         == first_match(leaderboard[s], selected_name)
            board         == set_name(leaderboard[s], index, new_name)
        IN
        /\ leaderboard' = [leaderboard EXCEPT ![s] = board]
        /\ csv_rows' = save_leaderboard(csv_rows, board)
        /\ csv_exists' = TRUE
        /\ run' = [NoRun EXCEPT !.session = s, !.op = "update", !.outcome = "updated",
                                !.selected_name = selected_name, !.index = index,
                                !.new_name = new_name]
        /\ writes' = writes + 1
        /\ UNCHANGED <<loaded, clock>>

\* the Delete Entry button, with an entry selected
DeleteEntry(s) ==
    /\ loaded[s]
    /\ leaderboard[s] # <<>>
    /\ writes < MaxWrites
    /\ \E option \in 1..Len(leaderboard[s]) :
        LET selected_name == leaderboard[s][option].name
            index         == first_match(leaderboard[s], selected_name)
            board         == pop(leaderboard[s], index)
        IN
        /\ leaderboard' = [leaderboard EXCEPT ![s] = board]
        /\ csv_rows' = save_leaderboard(csv_rows, board)
        /\ csv_exists' = TRUE
        /\ run' = [NoRun EXCEPT !.session = s, !.op = "delete", !.outcome = "deleted",
                                !.selected_name = selected_name, !.index = index,
                                !.new_name = selected_name]
        /\ writes' = writes + 1
        /\ UNCHANGED <<loaded, clock>>

\* time passes
Tick ==
    /\ clock < MaxClock
    /\ clock' = clock + 1
    /\ UNCHANGED <<leaderboard, loaded, csv_exists, csv_rows, run, writes>>

Next ==
    \/ \E s \in Sessions : Open(s)
    \/ \E s \in Sessions : Submit(s)
    \/ \E s \in Sessions : UpdateName(s)
    \/ \E s \in Sessions : DeleteEntry(s)
    \/ Tick

Spec == Init /\ [][Next]_vars

\* one session, no other writer
NextSingle ==
    \/ Open("s1")
    \/ Submit("s1")
    \/ UpdateName("s1")
    \/ DeleteEntry("s1")
    \/ Tick

SpecSingle == Init /\ [][NextSingle]_vars

(***************************************************************************)
(* The scorer's functions applied to bounded inputs.                       *)
(***************************************************************************)
Idle ==
    /\ leaderboard = [s \in Sessions |-> <<>>]
    /\ loaded = [s \in Sessions |-> FALSE]
    /\ csv_exists = FALSE
    /\ csv_rows = <<>>
    /\ clock = 0
    /\ writes = 0

InitText ==
    /\ Idle
    /\ \E text \in Texts : run = [NoRun EXCEPT !.op = "text", !.data_input = text]

ExtractNumbers ==
    /\ run.op = "text"
    /\ run' = [run EXCEPT !.op = "numbers", !.numbers = findall(run.data_input)]
    /\ UNCHANGED <<leaderboard, loaded, csv_exists, csv_rows, clock, writes>>

CountDigits ==
    /\ run.op = "numbers"
    /\ LET counts == count_first_digits(run.numbers) IN
       run' = [run EXCEPT !.op = "counts", !.counts = counts, !.total = sum(counts)]
    /\ UNCHANGED <<leaderboard, loaded, csv_exists, csv_rows, clock, writes>>

NextHistogram == ExtractNumbers \/ CountDigits

SpecHistogram == InitText /\ [][NextHistogram]_vars

InitCounts ==
    /\ Idle
    /\ \E counts \in Histograms :
        run = [NoRun EXCEPT !.op = "counts", !.counts = counts, !.total = sum(counts)]

Score ==
    /\ run.op = "counts"
    /\ LET res == chi_square_score(run.counts, BENFORD, run.total) IN
       run' = [run EXCEPT !.op = "score", !.score = res.score,
                          !.outcome = IF res.raised # "" THEN res.raised ELSE "ok"]
    /\ UNCHANGED <<leaderboard, loaded, csv_exists, csv_rows, clock, writes>>

NextChiSquare == Score

SpecChiSquare == InitCounts /\ [][NextChiSquare]_vars

(***************************************************************************)
(* Properties.                                                             *)
(***************************************************************************)
SortedDesc(board) == \A i \in 1..(Len(board) - 1) : board[i].score >= board[i + 1].score

\* the name is empty or whitespace-only
IsBlank(name) == \A i \in 1..Len(name) : name[i] \in Whitespace

\* where the digit runs of a text start
RunStarts(text) ==
    {i \in 1..Len(text) : text[i] \in Digits /\ (i = 1 \/ text[i - 1] \notin Digits)}

DigitChars == <<"1", "2", "3", "4", "5", "6", "7", "8", "9">>

\* the entry the last successful Submit appended
Submitted == [name |-> run.username, score |-> run.score, timestamp |-> strftime(clock)]

\* the rows of the file are the entries of board, in order, as [name, score, timestamp]
StoreHolds(board) ==
    /\ Len(csv_rows) = Len(board)
    /\ \A i \in 1..Len(board) :
        /\ Len(csv_rows[i]) = 3
        /\ csv_rows[i][1] = board[i].name
        /\ float(csv_rows[i][2]) = board[i].score
        /\ csv_rows[i][3] = board[i].timestamp

\* a step in which session s wrote the file
Wrote(s) == writes' = writes + 1 /\ run'.session = s

\* what one step may do to the entries a session already holds
KeepsEntries(old, new) ==
    CASE Len(new) = Len(old) ->
            \A i \in 1..Len(old) :
                new[i].score = old[i].score /\ new[i].timestamp = old[i].timestamp
      [] Len(new) = Len(old) + 1 -> \E k \in 1..Len(new) : RemoveAt(new, k) = old
      [] Len(new) = Len(old) - 1 -> \E k \in 1..Len(old) : RemoveAt(old, k) = new
      [] OTHER -> FALSE

\* C1: after every operation a session's leaderboard is sorted by score
\* descending, and entries of equal score keep their relative order: an
\* appended entry goes after the entries of its score, a rename leaves every
\* score in place, a delete only removes one entry.
C1_SortedStable ==
    [][\A s \in Sessions :
        /\ SortedDesc(leaderboard'[s])
        /\ loaded[s] =>
            LET old == leaderboard[s]
                new == leaderboard'[s]
            IN  CASE Len(new) = Len(old) ->
                        \A i \in 1..Len(old) : new[i].score = old[i].score
                  [] Len(new) = Len(old) + 1 ->
                        \E k \in 1..Len(new) :
                            /\ RemoveAt(new, k) = old
                            /\ \A j \in (k + 1)..Len(new) : new[j].score < new[k].score
                  [] Len(new) = Len(old) - 1 ->
                        \E k \in 1..Len(old) : RemoveAt(old, k) = new
                  [] OTHER -> FALSE]_vars

\* a Submit has put its entry right after a different entry of the same score,
\* below an entry of a higher score
C1_Witness ==
    /\ run.op = "submit" /\ run.outcome = "ok"
    /\ \E i \in 2..(Len(leaderboard[run.session]) - 1) :
        LET board == leaderboard[run.session] IN
        /\ board[i + 1] = Submitted
        /\ board[i] # Submitted
        /\ board[i].score = run.score
        /\ board[i - 1].score > run.score

\* C2 (the claim as stated): a Submit with a non-empty name and at least 5
\* digit runs that all start with "0" ends as a validation error or with
\* score 0, never with an arithmetic error.
C2_NoArithmeticError ==
    ( /\ run.op = "submit"
      /\ ~IsBlank(run.username)
      /\ Cardinality(RunStarts(run.data_input)) >= 5
      /\ \A i \in RunStarts(run.data_input) : run.data_input[i] = "0" )
    => \/ run.outcome \in {"name_error", "count_error"}
       \/ run.outcome = "ok" /\ run.score = 0

\* C3: a Submit whose name is blank, or whose dataset holds fewer than 5 digit
\* runs, leaves the leaderboard of every session and the file as they were.
C3_RejectedNoMutation ==
    [][( /\ run'.op = "submit"
         /\ \/ IsBlank(run'.username)
            \/ Cardinality(RunStarts(run'.data_input)) < 5 )
       => UNCHANGED <<leaderboard, csv_exists, csv_rows>>]_vars

\* both rejections have happened to a session with a leaderboard and a file
C3_Witness ==
    /\ run.op = "submit"
    /\ run.outcome = "count_error"
    /\ ~IsBlank(run.username)
    /\ Cardinality(RunStarts(run.data_input)) \in 1..4
    /\ leaderboard[run.session] # <<>>
    /\ csv_rows # <<>>

\* C4: with one session, the file holds exactly the session's leaderboard, one
\* row [name, score, timestamp] per entry in the same order, after every
\* operation; once written, the file exists even when it is empty.
C4_StoreIsMemory ==
    loaded["s1"] => /\ StoreHolds(leaderboard["s1"])
                    /\ writes > 0 => csv_exists

\* the only entry has been deleted: an empty leaderboard and an empty file
C4_Witness ==
    /\ run.op = "delete"
    /\ leaderboard["s1"] = <<>>
    /\ csv_exists
    /\ csv_rows = <<>>

\* C5: when two sessions that both loaded the empty store have each completed
\* one Submit (two writes in all, the last one by s), the file is s's
\* leaderboard alone: one row, although two entries were submitted.
C5_LastWriteWins ==
    \A s \in Sessions, o \in Sessions :
        ( /\ s # o
          /\ writes = 2
          /\ run.session = s /\ run.op = "submit" /\ run.outcome = "ok"
          /\ loaded[o]
          /\ Len(leaderboard[s]) = 1
          /\ Len(leaderboard[o]) = 1 )
        => /\ StoreHolds(leaderboard[s])
           /\ Len(csv_rows) = 1

\* the lost update: the first writer's entry is in its memory and not in the file
C5_Witness ==
    \E s \in Sessions, o \in Sessions :
        /\ s # o
        /\ writes = 2
        /\ run.session = s /\ run.op = "submit" /\ run.outcome = "ok"
        /\ loaded[o]
        /\ Len(leaderboard[s]) = 1
        /\ Len(leaderboard[o]) = 1
        /\ leaderboard[o][1] # leaderboard[s][1]
        /\ StoreHolds(leaderboard[s])
        /\ ~StoreHolds(leaderboard[o])

\* C6 (the claim as stated): no entry of a leaderboard has an empty name.
C6_NamesNonEmpty ==
    \A s \in Sessions : \A i \in 1..Len(leaderboard[s]) : leaderboard[s][i].name # <<>>

\* C7 (the claim as stated): chi_square_score returns a score within
\* [0.0, 100.0] for every histogram with total > 0.
C7_ScoreInRange ==
    (run.op = "score" /\ run.total > 0)
    => (run.outcome = "ok" /\ run.score >= 0 /\ run.score <= 1000)

\* C8: counts[d] is the number of tokens whose first character is the digit d,
\* for d in 1..9, and total is the sum of the counts, which is the number of
\* tokens whose first character is not "0".
C8_FirstDigitHistogram ==
    run.op = "counts" =>
        /\ \A d \in 1..9 :
            run.counts[d] =
                Cardinality({i \in 1..Len(run.numbers) : run.numbers[i][1] = DigitChars[d]})
        /\ run.total =
                Cardinality({i \in 1..Len(run.numbers) : run.numbers[i][1] # "0"})
        /\ run.total = run.counts[1] + run.counts[2] + run.counts[3] + run.counts[4]
                       + run.counts[5] + run.counts[6] + run.counts[7] + run.counts[8]
                       + run.counts[9]

\* the scenario "123 045 999 100 256 777": 045 is discarded
C8_Witness ==
    /\ run.op = "counts"
    /\ run.data_input = DataScenario
    /\ Len(run.numbers) = 6
    /\ run.counts = <<2, 1, 0, 0, 0, 0, 1, 0, 1>>
    /\ run.total = 5

\* C9: Update Name changes the name of one entry and nothing else (length,
\* order, every score and timestamp, every other name), and no step changes
\* the score or the timestamp of an entry a session already holds.
C9_RenameOnly ==
    [][\A s \in Sessions :
        loaded[s] =>
            LET old == leaderboard[s]
                new == leaderboard'[s]
            IN  /\ KeepsEntries(old, new)
                /\ (Wrote(s) /\ run'.op = "update") =>
                    /\ Len(new) = Len(old)
                    /\ \E i \in 1..Len(old) :
                        /\ new[i] = [old[i] EXCEPT !.name = run'.new_name]
                        /\ \A j \in 1..Len(old) : j # i => new[j] = old[j]]_vars

\* one of two entries of the same name has been renamed
C9_Witness ==
    /\ run.op = "update"
    /\ run.new_name # run.selected_name
    /\ LET board == leaderboard[run.session] IN
        /\ board[run.index].name = run.new_name
        /\ \E j \in 1..Len(board) : j # run.index /\ board[j].name = run.selected_name

\* C10: Update Name and Delete Entry act on the first entry, in display order,
\* whose name is the selected name; that entry alone is renamed or removed.
C10_FirstMatch ==
    [][\A s \in Sessions :
        (Wrote(s) /\ run'.op \in {"update", "delete"}) =>
            LET old   == leaderboard[s]
                new   == leaderboard'[s]
                first == CHOOSE i \in 1..Len(old) :
                            /\ old[i].name = run'.selected_name
                            /\ \A j \in 1..(i - 1) : old[j].name # run'.selected_name
            IN  /\ run'.index = first
                /\ run'.op = "update" => new = [old EXCEPT ![first].name = run'.new_name]
                /\ run'.op = "delete" =>
                    new = SubSeq(old, 1, first - 1) \o SubSeq(old, first + 1, Len(old))]_vars

\* the first of two entries of the selected name has been deleted
C10_Witness ==
    /\ run.op = "delete"
    /\ \E j \in run.index..Len(leaderboard[run.session]) :
        leaderboard[run.session][j].name = run.selected_name

====
